---- MODULE Spec2Model ----
(***************************************************************************)
(* Numerical discussion tree (NestJS + TypeORM + PostgreSQL).              *)
(*                                                                         *)
(* The table discussion_nodes is the only shared state.  DiscussionsService*)
(* offers createDiscussion (root creation), addOperation (child creation)  *)
(* and getAllDiscussions (forest reconstruction).  DiscussionsController   *)
(* puts the JWT guard before the two writing routes.                       *)
(*                                                                         *)
(* Spec is the application behind its controller; SpecDirect the service   *)
(* called directly; SpecCalc and SpecForest apply calculateResult and the  *)
(* forest reconstruction to inputs of their own.                           *)
(*                                                                         *)
(* Numbers.  The columns value and operand are decimal(20, 10).  A number  *)
(* written to such a column is sent as its text and rounded by the         *)
(* database to the column's scale; a value read from such a column is      *)
(* hydrated as the database's text ("10.0000000000"), because the entity   *)
(* declares no transformer.  A JavaScript value in this model is therefore *)
(* either a number or a string, and the operators + - * / act on it as     *)
(* JavaScript does.                                                        *)
(*                                                                         *)
(* To fit the model checker's integers, the column keeps ScaleDigits       *)
(* fractional digits and IntDigits integer digits (10 and 10 in the        *)
(* source), and a JavaScript number keeps ExtraDigits more fractional      *)
(* digits than the column: a number is an integer count of units of        *)
(* 10^-(ScaleDigits+ExtraDigits), a stored decimal an integer count of     *)
(* units of 10^-ScaleDigits.                                               *)
(***************************************************************************)
EXTENDS Integers, Sequences, FiniteSets, Bags, TLC

\* ---------------------------------------------------------------- bounds
ScaleDigits == 1
ExtraDigits == 1
IntDigits == 2
MaxNodes == 3
MaxRequests == 2

\* ------------------------------------------------------------ arithmetic
RECURSIVE Pow10(_)
Pow10(n) == IF n = 0 THEN 1 ELSE 10 * Pow10(n - 1)

Abs(x) == IF x < 0 THEN -x ELSE x

\* units of a JavaScript number per stored-decimal unit, and per 1
FinePerUlp == Pow10(ExtraDigits)
Fine == Pow10(ScaleDigits + ExtraDigits)
\* stored-decimal units per 1
Ulps == Pow10(ScaleDigits)

\* the quotient a / b rounded to the nearest integer, ties away from zero
RoundDiv(a, b) ==
    LET q == (2 * Abs(a) + Abs(b)) \div (2 * Abs(b))
    IN  IF (a < 0) = (b < 0) THEN q ELSE -q

\* ------------------------------------------------------------------ text
\* A text is a sequence of the characters "0".."9", "." and "-".
DigitChars == <<"0", "1", "2", "3", "4", "5", "6", "7", "8", "9">>

DigitChar(d) == DigitChars[d + 1]

IsDigit(c) == \E d \in 0..9 : DigitChar(d) = c

DigitVal(c) == CHOOSE d \in 0..9 : DigitChar(d) = c

RECURSIVE NatToText(_)
NatToText(n) ==
    IF n < 10 THEN <<DigitChar(n)>>
    ELSE NatToText(n \div 10) \o <<DigitChar(n % 10)>>

\* n written with exactly w digits, zero padded on the left
RECURSIVE PadNat(_, _)
PadNat(n, w) ==
    IF w = 0 THEN <<>> ELSE PadNat(n \div 10, w - 1) \o <<DigitChar(n % 10)>>

RECURSIVE StripTrailingZeros(_)
StripTrailingZeros(s) ==
    IF s # <<>> /\ s[Len(s)] = "0"
    THEN StripTrailingZeros(SubSeq(s, 1, Len(s) - 1))
    ELSE s

RECURSIVE TextToNat(_)
TextToNat(s) ==
    IF s = <<>> THEN 0
    ELSE 10 * TextToNat(SubSeq(s, 1, Len(s) - 1)) + DigitVal(s[Len(s)])

\* ----------------------------------------------------- JavaScript values
JsNumber(n) == [type |-> "number", n |-> n, s |-> <<>>]
JsString(s) == [type |-> "string", n |-> 0, s |-> s]

\* Number.prototype.toString for a number in plain decimal notation
NumberToString(n) ==
    LET whole == Abs(n) \div Fine
        frac  == StripTrailingZeros(PadNat(Abs(n) % Fine, ScaleDigits + ExtraDigits))
    IN  (IF n < 0 THEN <<"-">> ELSE <<>>)
        \o NatToText(whole)
        \o (IF frac = <<>> THEN <<>> ELSE <<".">> \o frac)

\* The reading of a decimal literal [-]digits[.digits] to `digits` fractional
\* digits, rounded half away from zero: [ok, units].  Any other text is not
\* a decimal literal.
IsNegative(text) == text # <<>> /\ text[1] = "-"

Unsigned(text) == IF IsNegative(text) THEN SubSeq(text, 2, Len(text)) ELSE text

IsLiteral(body) ==
    /\ Cardinality({i \in 1..Len(body) : body[i] = "."}) <= 1
    /\ \E i \in 1..Len(body) : IsDigit(body[i])
    /\ \A i \in 1..Len(body) : IsDigit(body[i]) \/ body[i] = "."

DotOf(body) ==
    IF \E i \in 1..Len(body) : body[i] = "."
    THEN CHOOSE i \in 1..Len(body) : body[i] = "."
    ELSE Len(body) + 1

Magnitude(whole, frac, digits) ==
    TextToNat(whole) * Pow10(digits)
    + TextToNat([i \in 1..digits |-> IF i <= Len(frac) THEN frac[i] ELSE "0"])
    + (IF Len(frac) > digits /\ DigitVal(frac[digits + 1]) >= 5 THEN 1 ELSE 0)

SplitAt(body, dot, digits) ==
    Magnitude(SubSeq(body, 1, dot - 1), SubSeq(body, dot + 1, Len(body)), digits)

ParseUnsigned(neg, body, digits) ==
    IF IsLiteral(body)
    THEN [ok |-> TRUE, units |-> (IF neg THEN -1 ELSE 1) * SplitAt(body, DotOf(body), digits)]
    ELSE [ok |-> FALSE, units |-> 0]

ParseDecimal(text, digits) == ParseUnsigned(IsNegative(text), Unsigned(text), digits)

\* ToNumber of a JavaScript value (the coercion applied by - * /)
ToNumber(v) ==
    IF v.type = "number" THEN v.n
    ELSE ParseDecimal(v.s, ScaleDigits + ExtraDigits).units

\* ToString of a JavaScript value (the coercion applied by + to a string's
\* partner, and by the database driver to a query parameter)
ToText(v) == IF v.type = "number" THEN NumberToString(v.n) ELSE v.s

\* ------------------------------------------------------- nullable fields
Null == <<>>
Some(x) == <<x>>

\* ------------------------------------------------------------- the entity
Operation == {"add", "subtract", "multiply", "divide"}

\* numeric_out of a decimal(20, 10) column: the stored decimal as the
\* database prints it, with every fractional digit of the scale
NumericOut(d) ==
    (IF d < 0 THEN <<"-">> ELSE <<>>)
    \o NatToText(Abs(d) \div Ulps)
    \o (IF ScaleDigits = 0 THEN <<>> ELSE <<".">> \o PadNat(Abs(d) % Ulps, ScaleDigits))

\* numeric_in of a decimal(20, 10) column: the text is read as a decimal
\* literal, rounded to the scale, and refused when it is no literal or when
\* it needs more integer digits than precision - scale
InRange(p) ==
    IF p.ok /\ Abs(p.units) < Pow10(IntDigits + ScaleDigits)
    THEN p
    ELSE [ok |-> FALSE, units |-> 0]

NumericIn(text) == InRange(ParseDecimal(text, ScaleDigits))

\* A row of discussion_nodes as the repository hydrates it: decimal columns
\* come back as text.
Hydrate(row) ==
    [id        |-> Some(row.id),
     value     |-> JsString(NumericOut(row.value)),
     operation |-> row.operation,
     operand   |-> IF row.operand = Null THEN Null
                   ELSE Some(JsString(NumericOut(row.operand[1]))),
     parentId  |-> row.parentId,
     authorId  |-> row.authorId,
     createdAt |-> Some(row.createdAt)]

\* ---------------------------------------------------------- the repository
\* repository.create: a new entity, not yet stored
RepositoryCreate(value, operation, operand, parentId, authorId) ==
    [id        |-> Null,
     value     |-> value,
     operation |-> operation,
     operand   |-> operand,
     parentId  |-> parentId,
     authorId  |-> authorId,
     createdAt |-> Null]

\* the row an entity is written as, its decimal parameters v and o read by
\* their columns
RowOf(entity, id, createdAt, v, o) ==
    [id        |-> id,
     value     |-> v.units,
     operation |-> entity.operation,
     operand   |-> IF entity.operand = Null THEN Null ELSE Some(o.units),
     parentId  |-> entity.parentId,
     authorId  |-> entity.authorId,
     createdAt |-> createdAt]

\* INSERT: the generated id and createdAt are merged into the entity
Insert(table, entity, id, v, o) ==
    [ok     |-> TRUE,
     table  |-> Append(table, RowOf(entity, id, Len(table) + 1, v, o)),
     entity |-> [entity EXCEPT !.id = Some(id), !.createdAt = Some(Len(table) + 1)]]

\* UPDATE of the row that has the entity's id
Update(table, entity, v, o) ==
    [ok     |-> TRUE,
     table  |-> [i \in 1..Len(table) |->
                    IF entity.id = Some(table[i].id)
                    THEN RowOf(entity, table[i].id, table[i].createdAt, v, o)
                    ELSE table[i]],
     entity |-> entity]

Write(table, entity, v, o) ==
    IF ~(v.ok /\ o.ok)
    THEN [ok |-> FALSE, table |-> table, entity |-> entity]
    ELSE IF \E i \in 1..Len(table) : entity.id = Some(table[i].id)
    THEN Update(table, entity, v, o)
    ELSE Insert(table, entity,
                IF entity.id = Null THEN Len(table) + 1 ELSE entity.id[1], v, o)

\* repository.save(entity).  An entity without an id, or with an id no row
\* has, is INSERTed; an entity with the id of a stored row UPDATEs that row.
\* The entity is returned with its other fields as they were given.  The
\* statement is refused when a decimal parameter is refused by its column.
RepositorySave(table, entity) ==
    Write(table, entity,
          NumericIn(ToText(entity.value)),
          IF entity.operand = Null THEN [ok |-> TRUE, units |-> 0]
          ELSE NumericIn(ToText(entity.operand[1])))

\* repository.findOne({ where: { id } })
RepositoryFindOne(table, id) ==
    IF \E i \in 1..Len(table) : table[i].id = id
    THEN Some(Hydrate(table[CHOOSE i \in 1..Len(table) : table[i].id = id]))
    ELSE Null

\* a listing of the two most recent rows only (take: 2)
RepositoryFindPage(table) ==
    [i \in 1..(IF Len(table) < 2 THEN Len(table) ELSE 2) |->
        Hydrate(table[Len(table) + 1 - i])]

\* a listing in the order of insertion (createdAt ascending)
RepositoryFindAscending(table) ==
    [i \in 1..Len(table) |-> Hydrate(table[i])]

\* repository.find({ order: { createdAt: 'DESC' } })
RepositoryFind(table) ==
    [i \in 1..Len(table) |-> Hydrate(table[Len(table) + 1 - i])]

\* ------------------------------------------------------ DiscussionsService
Returned(v) == [threw |-> FALSE, message |-> "", value |-> v]
Thrown(m) == [threw |-> TRUE, message |-> m, value |-> JsNumber(0)]

\* leftValue + rightValue: concatenation when an operand is a string
JsPlus(l, r) ==
    IF l.type = "string" \/ r.type = "string"
    THEN JsString(ToText(l) \o ToText(r))
    ELSE JsNumber(l.n + r.n)

\* a * b and a / b of two numbers, to the nearest number.  The whole and the
\* fractional part are worked separately, so that no intermediate product
\* leaves the model checker's integers; the result is RoundDiv(a * b, Fine)
\* and RoundDiv(a * Fine, b).
Sign(a, b) == IF (a < 0) = (b < 0) THEN 1 ELSE -1

NumberTimes(a, b) ==
    Sign(a, b) * ((Abs(a) \div Fine) * Abs(b) + RoundDiv((Abs(a) % Fine) * Abs(b), Fine))

NumberDivide(a, b) ==
    Sign(a, b) * ((Abs(a) \div Abs(b)) * Fine + RoundDiv((Abs(a) % Abs(b)) * Fine, Abs(b)))

JsMinus(l, r) == JsNumber(ToNumber(l) - ToNumber(r))

JsTimes(l, r) == JsNumber(NumberTimes(ToNumber(l), ToNumber(r)))

JsDivide(l, r) == JsNumber(NumberDivide(ToNumber(l), ToNumber(r)))

\* rightValue === 0
StrictEqualsZero(v) == v.type = "number" /\ v.n = 0

\* calculateResult with the subtraction's operands exchanged
calculateResultSwapped(leftValue, operation, rightValue) ==
    CASE operation = "add"      -> Returned(JsPlus(leftValue, rightValue))
      [] operation = "subtract" -> Returned(JsMinus(rightValue, leftValue))
      [] operation = "multiply" -> Returned(JsTimes(leftValue, rightValue))
      [] operation = "divide"   ->
            IF StrictEqualsZero(rightValue)
            THEN Thrown("Division by zero is not allowed")
            ELSE Returned(JsDivide(leftValue, rightValue))
      [] OTHER                  -> Thrown("Invalid operation")

\* calculateResult answering 0 for a division by zero instead of throwing
calculateResultZero(leftValue, operation, rightValue) ==
    CASE operation = "add"      -> Returned(JsPlus(leftValue, rightValue))
      [] operation = "subtract" -> Returned(JsMinus(leftValue, rightValue))
      [] operation = "multiply" -> Returned(JsTimes(leftValue, rightValue))
      [] operation = "divide"   ->
            IF StrictEqualsZero(rightValue)
            THEN Returned(JsNumber(0))
            ELSE Returned(JsDivide(leftValue, rightValue))
      [] OTHER                  -> Thrown("Invalid operation")

\* calculateResult without its default branch: an unknown operation leaves
\* the value as it is
calculateResultNoDefault(leftValue, operation, rightValue) ==
    CASE operation = "add"      -> Returned(JsPlus(leftValue, rightValue))
      [] operation = "subtract" -> Returned(JsMinus(leftValue, rightValue))
      [] operation = "multiply" -> Returned(JsTimes(leftValue, rightValue))
      [] operation = "divide"   ->
            IF StrictEqualsZero(rightValue)
            THEN Thrown("Division by zero is not allowed")
            ELSE Returned(JsDivide(leftValue, rightValue))
      [] OTHER                  -> Returned(leftValue)

calculateResult(leftValue, operation, rightValue) ==
    CASE operation = "add"      -> Returned(JsPlus(leftValue, rightValue))
      [] operation = "subtract" -> Returned(JsMinus(leftValue, rightValue))
      [] operation = "multiply" -> Returned(JsTimes(leftValue, rightValue))
      [] operation = "divide"   ->
            IF StrictEqualsZero(rightValue)
            THEN Thrown("Division by zero is not allowed")
            ELSE Returned(JsDivide(leftValue, rightValue))
      [] OTHER                  -> Thrown("Invalid operation")

\* ------------------------------------------------- forest reconstruction
\* The two passes of getAllDiscussions over allNodes.  nodeMap holds, for
\* every id, the copy { ...node, children: [] }; children and rootNodes hold
\* references to those copies, written here as their ids.
\* nodeMap holding the listed records themselves, each given a children
\* field in place (Object.assign(node, { children: [] }))
NodeMapOfInPlace(allNodes) ==
    [id \in {allNodes[i].id[1] : i \in 1..Len(allNodes)} |->
        [node     |-> [children |-> <<>>,
                       id |-> Some(id),
                       value |-> allNodes[CHOOSE i \in 1..Len(allNodes) :
                                              allNodes[i].id[1] = id].value],
         children |-> <<>>]]

NodeMapOf(allNodes) ==
    [id \in {allNodes[i].id[1] : i \in 1..Len(allNodes)} |->
        [node     |-> allNodes[CHOOSE i \in 1..Len(allNodes) :
                          /\ allNodes[i].id[1] = id
                          /\ \A j \in (i + 1)..Len(allNodes) : allNodes[j].id[1] # id],
         children |-> <<>>]]

RECURSIVE LinkNodes(_, _, _)
LinkNodes(allNodes, i, tree) ==
    IF i > Len(allNodes) THEN tree
    ELSE LET node == allNodes[i]
             currentNode == node.id[1]
         IN  LinkNodes(allNodes, i + 1,
                 IF node.parentId = Null
                 THEN [tree EXCEPT !.rootNodes = Append(@, currentNode)]
                 ELSE IF node.parentId[1] \in DOMAIN tree.nodeMap
                      THEN [tree EXCEPT !.nodeMap[node.parentId[1]].children =
                                            Append(@, currentNode)]
                      ELSE tree)

\* a single pass: a node is linked to its parent only when the parent came
\* earlier in allNodes
RECURSIVE LinkNodesOnePass(_, _, _)
LinkNodesOnePass(allNodes, i, tree) ==
    IF i > Len(allNodes) THEN tree
    ELSE LET node == allNodes[i]
             currentNode == node.id[1]
         IN  LinkNodesOnePass(allNodes, i + 1,
                 IF node.parentId = Null
                 THEN [tree EXCEPT !.rootNodes = Append(@, currentNode)]
                 ELSE IF \E j \in 1..(i - 1) : allNodes[j].id = node.parentId
                      THEN [tree EXCEPT !.nodeMap[node.parentId[1]].children =
                                            Append(@, currentNode)]
                      ELSE tree)

BuildForestOnePass(allNodes) ==
    LinkNodesOnePass(allNodes, 1,
                     [rootNodes |-> <<>>, nodeMap |-> NodeMapOf(allNodes)])

\* a node whose parent is not in allNodes is kept as a root
RECURSIVE LinkNodesOrphanRoots(_, _, _)
LinkNodesOrphanRoots(allNodes, i, tree) ==
    IF i > Len(allNodes) THEN tree
    ELSE LET node == allNodes[i]
             currentNode == node.id[1]
         IN  LinkNodesOrphanRoots(allNodes, i + 1,
                 IF node.parentId = Null \/ node.parentId[1] \notin DOMAIN tree.nodeMap
                 THEN [tree EXCEPT !.rootNodes = Append(@, currentNode)]
                 ELSE [tree EXCEPT !.nodeMap[node.parentId[1]].children =
                                       Append(@, currentNode)])

BuildForestOrphanRoots(allNodes) ==
    LinkNodesOrphanRoots(allNodes, 1,
                         [rootNodes |-> <<>>, nodeMap |-> NodeMapOf(allNodes)])

\* every node is pushed to rootNodes, whatever its parentId
BuildForestAllRoots(allNodes) ==
    [LinkNodes(allNodes, 1, [rootNodes |-> <<>>, nodeMap |-> NodeMapOf(allNodes)])
        EXCEPT !.rootNodes = [i \in 1..Len(allNodes) |-> allNodes[i].id[1]]]

\* rootNodes starts with a placeholder entry
BuildForestPlaceholder(allNodes) ==
    LinkNodes(allNodes, 1, [rootNodes |-> <<0>>, nodeMap |-> NodeMapOf(allNodes)])

BuildForest(allNodes) ==
    LinkNodes(allNodes, 1, [rootNodes |-> <<>>, nodeMap |-> NodeMapOf(allNodes)])

NoForest == [rootNodes |-> <<>>, nodeMap |-> <<>>]

\* ------------------------------------------------------------- the inputs
Users == {"u1", "u2"}

\* startingNumber of a request: 10, and a number with more fractional digits
\* than the column keeps
StartingNumbers == {10 * Fine, FinePerUlp + 1}

\* operand of a request: 0, 5, and a nonzero number below half of the
\* column's smallest step
Operands == {0, 5 * Fine, FinePerUlp \div 2 - 1}

\* parentId of a request: the id of a stored node, or of none
ParentIds == 1..MaxNodes

Dtos == [parentId : ParentIds, operation : Operation, operand : Operands]

\* what a request carries in its Authorization header: nothing, a token not
\* signed with the secret, or a signed token of a user or of a user that no
\* longer exists
Credentials ==
    {[kind |-> "none", sub |-> ""], [kind |-> "forged", sub |-> "u1"]}
    \cup [kind : {"signed"}, sub : Users \cup {"u0"}]

NoDto == [parentId |-> 0, operation |-> "", operand |-> 0]

\* the arguments of calculateResult when it is given numbers, as its
\* signature declares
CalcLeftValues == {10 * Fine, 0, 7 * Fine + 1, Fine \div 2, -(3 * Fine)}

CalcRightValues == {5 * Fine, 0, 3 * Fine, Fine \div 4 + 1, -(2 * Fine)}

\* ---------------------------------------------------------------- state
VARIABLES
    rows,       \* the table discussion_nodes, in insertion order
    requests,   \* the addOperation calls suspended at `await findOne`, a bag
    response,   \* what the call that completed last gave its caller
    calc,       \* a call of calculateResult on its own: arguments and result
    listing     \* a forest reconstruction on its own: allNodes and result

vars == <<rows, requests, response, calc, listing>>

\* an addOperation call suspended at `await findOne`: its arguments, and the
\* parent the lookup resolves to
Call(userId, dto, parent) == [userId |-> userId, dto |-> dto, parent |-> parent]

NoResponse ==
    [handler |-> "none", userId |-> "", startingNumber |-> 0,
     outcome |-> "none", message |-> "", node |-> Null, forest |-> NoForest]

NoCalc ==
    [leftValue |-> JsNumber(0), operation |-> "", rightValue |-> JsNumber(0),
     called |-> FALSE, result |-> Thrown("")]

\* the model stops taking calls that could insert beyond MaxNodes rows
Room == Len(rows) + BagCardinality(requests) < MaxNodes

NoListing == [allNodes |-> <<>>, built |-> FALSE, forest |-> NoForest]

Init ==
    /\ rows = <<>>
    /\ requests = EmptyBag
    /\ response = NoResponse
    /\ calc = NoCalc
    /\ listing = NoListing

\* ------------------------------------------------------------- operations
\* what a call gives its caller
Reply(handler, userId, startingNumber, done) ==
    [NoResponse EXCEPT
        !.handler = handler,
        !.userId = userId,
        !.startingNumber = startingNumber,
        !.outcome = done.outcome,
        !.message = done.message,
        !.node = done.node]

\* the result of `return this.discussionNodeRepository.save(node)`
Saved(saved) ==
    [table   |-> saved.table,
     outcome |-> IF saved.ok THEN "resolved" ELSE "QueryFailedError",
     message |-> "",
     node    |-> IF saved.ok THEN Some(saved.entity) ELSE Null]

Failed(table, outcome, message) ==
    [table |-> table, outcome |-> outcome, message |-> message, node |-> Null]

\* a root built with operand 0 instead of no operand
RootNodeZeroOperand(userId, startingNumber) ==
    RepositoryCreate(JsNumber(startingNumber), Null, Some(JsNumber(0)), Null, userId)

\* the entity createDiscussion builds
RootNode(userId, startingNumber) ==
    RepositoryCreate(JsNumber(startingNumber), Null, Null, Null, userId)

\* createDiscussion saving the node it built twice
createDiscussionBodyTwice(table, userId, startingNumber) ==
    Saved(RepositorySave(
              RepositorySave(table,
                  RepositoryCreate(JsNumber(startingNumber), Null, Null, Null, userId)).table,
              RepositoryCreate(JsNumber(startingNumber), Null, Null, Null, userId)))

\* the body of createDiscussion: what it does to the table and gives back
createDiscussionBody(table, userId, startingNumber) ==
    Saved(RepositorySave(table, RootNode(userId, startingNumber)))

\* createDiscussion(userId, { startingNumber })
createDiscussion(userId, startingNumber) ==
    /\ Room
    /\ \E done \in {createDiscussionBody(rows, userId, startingNumber)} :
          /\ rows' = done.table
          /\ response' = Reply("createDiscussion", userId, startingNumber, done)
    /\ UNCHANGED <<requests, calc, listing>>

\* addOperation up to `await findOne`: the lookup of the parent
addOperationFindOne(userId, dto) ==
    /\ Room
    /\ BagCardinality(requests) < MaxRequests
    /\ requests' = requests (+)
                     SetToBag({Call(userId, dto, RepositoryFindOne(rows, dto.parentId))})
    /\ UNCHANGED <<rows, response, calc, listing>>

\* a child built as a copy of its parent ({ ...parent, value: result, ... }):
\* it carries the parent's id
ChildNodeSpread(userId, dto, parent, result) ==
    [id        |-> parent.id,
     value     |-> result,
     operation |-> Some(dto.operation),
     operand   |-> Some(JsNumber(dto.operand)),
     parentId  |-> parent.id,
     authorId  |-> userId,
     createdAt |-> Null]

\* a child built with its parent's author
ChildNodeParentAuthor(userId, dto, parent, result) ==
    [id        |-> Null,
     value     |-> result,
     operation |-> Some(dto.operation),
     operand   |-> Some(JsNumber(dto.operand)),
     parentId  |-> parent.id,
     authorId  |-> parent.authorId,
     createdAt |-> Null]

\* the entity addOperation builds
ChildNode(userId, dto, parent, result) ==
    RepositoryCreate(result, Some(dto.operation), Some(JsNumber(dto.operand)),
                     parent.id, userId)

\* a node inserted before the result is looked at, the failure raised after
SaveChildEager(table, call, parent, result) ==
    IF result.threw
    THEN Failed(RepositorySave(table,
                    ChildNode(call.userId, call.dto, parent, JsNumber(0))).table,
                "BadRequestException", result.message)
    ELSE Saved(RepositorySave(table, ChildNode(call.userId, call.dto, parent, result.value)))

\* a save that is refused when the parent already has a child (a unique
\* parentId)
SaveChildOnce(table, call, parent, result) ==
    IF result.threw
    THEN Failed(table, "BadRequestException", result.message)
    ELSE IF \E i \in 1..Len(table) : table[i].parentId = parent.id
    THEN Failed(table, "QueryFailedError", "")
    ELSE Saved(RepositorySave(table, ChildNode(call.userId, call.dto, parent, result.value)))

\* addOperation from the computed result on
SaveChild(table, call, parent, result) ==
    IF result.threw
    THEN Failed(table, "BadRequestException", result.message)
    ELSE Saved(RepositorySave(table, ChildNode(call.userId, call.dto, parent, result.value)))

\* addOperation with the parent found
WithParent(table, call, parent) ==
    SaveChild(table, call, parent,
              calculateResult(parent.value, call.dto.operation, JsNumber(call.dto.operand)))

\* addOperation without the check of the parent (parent?.value ?? 0), the
\* child pointing at the requested parentId
addOperationBodyUnchecked(table, call) ==
    IF call.parent = Null
    THEN WithParent(table, call,
                    [id |-> Some(call.dto.parentId), value |-> JsNumber(0)])
    ELSE WithParent(table, call, call.parent[1])

\* addOperation computing the result (of parent?.value) before it checks
\* the parent
addOperationBodyComputeFirst(table, call) ==
    IF calculateResult(IF call.parent = Null THEN JsNumber(0) ELSE call.parent[1].value,
                       call.dto.operation, JsNumber(call.dto.operand)).threw
    THEN Failed(table, "BadRequestException", "Division by zero is not allowed")
    ELSE IF call.parent = Null
    THEN Failed(table, "NotFoundException", "Parent node not found")
    ELSE WithParent(table, call, call.parent[1])

\* addOperation letting only the parent's author attach a child
addOperationBodyOwnerOnly(table, call) ==
    IF call.parent = Null
    THEN Failed(table, "NotFoundException", "Parent node not found")
    ELSE IF call.parent[1].authorId # call.userId
    THEN Failed(table, "ForbiddenException", "Forbidden")
    ELSE WithParent(table, call, call.parent[1])

\* the body of addOperation after `await findOne`: the check of the parent,
\* the computation, and the save
addOperationBody(table, call) ==
    IF call.parent = Null
    THEN Failed(table, "NotFoundException", "Parent node not found")
    ELSE WithParent(table, call, call.parent[1])

addOperationResume(call) ==
    /\ BagIn(call, requests)
    /\ requests' = requests (-) SetToBag({call})
    /\ \E done \in {addOperationBody(rows, call)} :
          /\ rows' = done.table
          /\ response' = Reply("addOperation", call.userId, 0, done)
    /\ UNCHANGED <<calc, listing>>

\* nodeMap and rootNodes kept between calls instead of built per call: a
\* call right after another links the nodes a second time
getAllDiscussionsShared ==
    /\ response' = [NoResponse EXCEPT
                       !.handler = "getAllDiscussions",
                       !.outcome = "resolved",
                       !.forest =
                           IF /\ response.handler = "getAllDiscussions"
                              /\ Len(response.forest.rootNodes) <= Len(rows)
                           THEN LinkNodes(RepositoryFind(rows), 1, response.forest)
                           ELSE BuildForest(RepositoryFind(rows))]
    /\ UNCHANGED <<rows, requests, calc, listing>>

\* getAllDiscussions()
getAllDiscussions ==
    /\ response' = [NoResponse EXCEPT
                       !.handler = "getAllDiscussions",
                       !.outcome = "resolved",
                       !.forest = BuildForest(RepositoryFind(rows))]
    /\ UNCHANGED <<rows, requests, calc, listing>>

\* ---------------------------------------------------------- the controller
\* AuthGuard('jwt'): the bearer token is taken from the Authorization header
\* and verified against the secret, then JwtStrategy.validate looks up the
\* user of payload.sub.  The guard yields req.user, or refuses the request.
JwtAuthGuardOpen(credential) ==
    IF credential.kind = "none" THEN Null
    ELSE Some([userId |-> credential.sub])

JwtAuthGuard(credential) ==
    IF credential.kind = "signed" /\ credential.sub \in Users
    THEN Some([userId |-> credential.sub])
    ELSE Null

\* the 401 a guard answers with; the handler is not called
Unauthorized ==
    /\ response' = [NoResponse EXCEPT
                       !.handler = "AuthGuard",
                       !.outcome = "UnauthorizedException",
                       !.message = "Unauthorized"]
    /\ UNCHANGED <<rows, requests, calc, listing>>

\* @Post() @UseGuards(AuthGuard('jwt')) createDiscussion
PostDiscussions(credential) ==
    \E user \in {JwtAuthGuard(credential)} :
        IF user = Null
        THEN Unauthorized
        ELSE \E startingNumber \in StartingNumbers :
                 createDiscussion(user[1].userId, startingNumber)

\* @Post('operation') @UseGuards(AuthGuard('jwt')) addOperation
PostDiscussionsOperation(credential) ==
    \E user \in {JwtAuthGuard(credential)} :
        IF user = Null
        THEN Unauthorized
        ELSE \E dto \in Dtos : addOperationFindOne(user[1].userId, dto)

\* @Get() getAllDiscussions: no guard
GetDiscussions(credential) == getAllDiscussions

Next ==
    \/ \E k \in Credentials : PostDiscussions(k)
    \/ \E k \in Credentials : PostDiscussionsOperation(k)
    \/ \E c \in BagToSet(requests) : addOperationResume(c)
    \/ \E k \in Credentials : GetDiscussions(k)

Spec == Init /\ [][Next]_vars

\* ------------------------------------------ the service called directly
\* DiscussionsService called as its tests call it, without the controller
\* and its validation of the request: the operation may be a tag that is not
\* of the enum.
UnknownOperations == {"modulo"}

DirectDtos ==
    [parentId : ParentIds, operation : {"multiply"} \cup UnknownOperations,
     operand : Operands]

NextDirect ==
    \/ \E u \in Users, v \in StartingNumbers : createDiscussion(u, v)
    \/ \E u \in Users, d \in DirectDtos : addOperationFindOne(u, d)
    \/ \E c \in BagToSet(requests) : addOperationResume(c)

SpecDirect == Init /\ [][NextDirect]_vars

\* ------------------------------------------- calculateResult on its own
InitCalc ==
    /\ rows = <<>>
    /\ requests = EmptyBag
    /\ response = NoResponse
    /\ listing = NoListing
    /\ calc \in {[NoCalc EXCEPT !.leftValue = JsNumber(l),
                                !.operation = op,
                                !.rightValue = JsNumber(r)] :
                    l \in CalcLeftValues, op \in Operation, r \in CalcRightValues}

CallCalculateResult ==
    /\ ~calc.called
    /\ calc' = [calc EXCEPT
                   !.called = TRUE,
                   !.result = calculateResult(calc.leftValue, calc.operation,
                                              calc.rightValue)]
    /\ UNCHANGED <<rows, requests, response, listing>>

NextCalc == CallCalculateResult

SpecCalc == InitCalc /\ [][NextCalc]_vars

\* ------------------------------------- forest reconstruction on its own
\* The two passes of getAllDiscussions given any list of nodes with distinct
\* ids (id is the primary key), in any order, each a root or pointing at an
\* id that is or is not in the list.
ListedNode(id, parentId) ==
    Hydrate([id        |-> id,
             value     |-> 0,
             operation |-> IF parentId = Null THEN Null ELSE Some("add"),
             operand   |-> IF parentId = Null THEN Null ELSE Some(0),
             parentId  |-> parentId,
             authorId  |-> "u1",
             createdAt |-> id])

ListedParentIds == {Null} \cup {Some(p) : p \in 1..(MaxNodes + 1)}

\* the ids of a list of n nodes: distinct
ListedIds(n) ==
    {f \in [1..n -> 1..MaxNodes] : \A i, j \in 1..n : f[i] = f[j] => i = j}

NodeList(n, ids, parents) == [i \in 1..n |-> ListedNode(ids[i], parents[i])]

InitForest ==
    /\ rows = <<>>
    /\ requests = EmptyBag
    /\ response = NoResponse
    /\ calc = NoCalc
    /\ \E n \in 0..MaxNodes :
          \E ids \in ListedIds(n), parents \in [1..n -> ListedParentIds] :
              listing = [NoListing EXCEPT !.allNodes = NodeList(n, ids, parents)]

Reconstruct ==
    /\ ~listing.built
    /\ listing' = [listing EXCEPT
                      !.built = TRUE,
                      !.forest = BuildForest(listing.allNodes)]
    /\ UNCHANGED <<rows, requests, response, calc>>

NextForest == Reconstruct

SpecForest == InitForest /\ [][NextForest]_vars

\* the two passes are loops over allNodes that run to their end once begun
SpecForestFair == SpecForest /\ WF_vars(Reconstruct)
\* ================================================================ claims
Ids(table) == {table[i].id : i \in 1..Len(table)}

RowWithId(table, id) == table[CHOOSE i \in 1..Len(table) : table[i].id = id]

\* this step resumes the suspended call c / suspends the new call c
Resumed(c) == BagIn(c, requests) /\ requests' = requests (-) SetToBag({c})

Arrived(c) == requests' = requests (+) SetToBag({c})

\* this step appends exactly one row to the table
OneInsert == Len(rows') = Len(rows) + 1 /\ SubSeq(rows', 1, Len(rows)) = rows

\* n is the number nearest to l * r, and to l / r
IsProduct(n, l, r) ==
    2 * Abs(Fine * (n - l * (r \div Fine)) - l * (r % Fine)) <= Fine

IsQuotient(n, l, r) == 2 * Abs(n * r - l * Fine) <= Abs(r)

\* C1: given numbers, with a nonzero operand when dividing, calculateResult
\* returns the sum, the difference, the product or the quotient of its
\* arguments; add(10, 5) = 15, multiply(10, 5) = 50, subtract(10, 5) = 5,
\* divide(10, 5) = 2.
C1_CalculateResultArithmetic ==
    LET l  == calc.leftValue.n
        r  == calc.rightValue.n
        op == calc.operation
        v  == calc.result.value
        example == l = 10 * Fine /\ r = 5 * Fine
    IN  (calc.called /\ ~(op = "divide" /\ r = 0)) =>
            /\ ~calc.result.threw
            /\ v.type = "number"
            /\ op = "add" => v.n = l + r /\ (example => v.n = 15 * Fine)
            /\ op = "subtract" => v.n = l - r /\ (example => v.n = 5 * Fine)
            /\ op = "multiply" => IsProduct(v.n, l, r) /\ (example => v.n = 50 * Fine)
            /\ op = "divide" => IsQuotient(v.n, l, r) /\ (example => v.n = 2 * Fine)

C1_Witness ==
    /\ calc.called
    /\ calc.operation = "divide"
    /\ calc.leftValue = JsNumber(10 * Fine)
    /\ calc.rightValue = JsNumber(5 * Fine)
    /\ calc.result = Returned(JsNumber(2 * Fine))

\* C2: an addOperation call with operation divide and operand 0 whose parent
\* was found fails with BadRequestException 'Division by zero is not
\* allowed', whatever the parent's value, and writes nothing.
C2_DivideByZeroRejected ==
    [][\A c \in BagToSet(requests) :
          (Resumed(c) /\ c.parent # Null
              /\ c.dto.operation = "divide" /\ c.dto.operand = 0)
          => /\ response'.outcome = "BadRequestException"
             /\ response'.message = "Division by zero is not allowed"
             /\ rows' = rows]_vars

C2_Witness ==
    /\ response.handler = "addOperation"
    /\ response.outcome = "BadRequestException"
    /\ response.message = "Division by zero is not allowed"
    /\ rows # <<>>

\* C3: the lookup of a parentId finds no parent exactly when no stored node
\* has that id, and a call whose lookup found no parent fails with
\* NotFoundException in a step that leaves the table as it was.
C3_UnknownParentNotFound ==
    [][/\ \A c \in BagToSet(requests') :
             Arrived(c) => (c.parent = Null <=> c.dto.parentId \notin Ids(rows))
       /\ \A c \in BagToSet(requests) :
             (Resumed(c) /\ c.parent = Null)
             => /\ response'.outcome = "NotFoundException"
                /\ response'.node = Null
                /\ rows' = rows]_vars

C3_Witness ==
    /\ response.handler = "addOperation"
    /\ response.outcome = "NotFoundException"
    /\ rows # <<>>

\* C4 (as claimed): every stored child's value is its operation applied to
\* the stored value of its parent and its own stored operand; a child
\* created with add 5 on a node of value 10 has value 15.
ChildValueHolds(child, parent) ==
    LET cv == child.value
        pv == parent.value
        ov == child.operand[1]
    IN  CASE child.operation = Some("add")      -> cv = pv + ov
          [] child.operation = Some("subtract") -> cv = pv - ov
          [] child.operation = Some("multiply") -> cv * Ulps = pv * ov
          [] child.operation = Some("divide")   -> ov # 0 /\ cv * ov = pv * Ulps
          [] OTHER                              -> FALSE

C4_ChildValueFromParent ==
    \A i \in 1..Len(rows) :
        (rows[i].parentId # Null /\ rows[i].parentId[1] \in Ids(rows))
        => ChildValueHolds(rows[i], RowWithId(rows, rows[i].parentId[1]))

\* C5 (as claimed): no stored node has operation divide together with
\* operand 0.
C5_NoStoredDivideByZero ==
    \A i \in 1..Len(rows) :
        ~(rows[i].operation = Some("divide") /\ rows[i].operand = Some(0))

\* C6: every stored node is a root or has the id of a stored node as its
\* parentId.
C6_ParentExists ==
    \A i \in 1..Len(rows) :
        rows[i].parentId = Null \/ rows[i].parentId[1] \in Ids(rows)

C6_Witness ==
    \E i \in 1..Len(rows) :
        rows[i].parentId # Null /\ rows[i].parentId[1] \in Ids(rows)

\* C7: every stored node has operation and operand both present or both
\* absent, and they are absent exactly when parentId is absent.
C7_OperationOperandPaired ==
    \A i \in 1..Len(rows) :
        /\ (rows[i].operation = Null) <=> (rows[i].operand = Null)
        /\ (rows[i].operation = Null) <=> (rows[i].parentId = Null)
        /\ rows[i].operation # Null => rows[i].operation[1] \in Operation

C7_Witness ==
    /\ \E i \in 1..Len(rows) : rows[i].parentId = Null /\ rows[i].operand = Null
    /\ \E i \in 1..Len(rows) : rows[i].parentId # Null /\ rows[i].operand # Null

\* C8: every step of createDiscussion, addOperation and getAllDiscussions,
\* failed or not, leaves every stored node in place with all its fields; the
\* table only grows at its end.
C8_NodesImmutable ==
    [][/\ Len(rows') >= Len(rows)
       /\ \A i \in 1..Len(rows) : rows'[i] = rows[i]]_vars

C8_Witness ==
    /\ Len(rows) >= 2
    /\ response.handler = "addOperation"
    /\ response.outcome = "resolved"

\* C9: createDiscussion with startingNumber v (within the column's range)
\* and user u resolves to a node with value v, authorId u and no operation,
\* operand or parentId, and appends exactly one row, which is that node: a
\* new id, the same author, no operation, operand or parentId, and v as the
\* column holds it.
C9_CreateRoot ==
    [][(response' # response /\ response'.handler = "createDiscussion")
       => /\ response'.outcome = "resolved"
          /\ response'.node # Null
          /\ LET node == response'.node[1]
                 row  == rows'[Len(rows')]
                 v    == response'.startingNumber
             IN  /\ node.value = JsNumber(v)
                 /\ node.authorId = response'.userId
                 /\ node.operation = Null
                 /\ node.operand = Null
                 /\ node.parentId = Null
                 /\ OneInsert
                 /\ node.id = Some(row.id)
                 /\ row.id \notin Ids(rows)
                 /\ row.authorId = response'.userId
                 /\ row.operation = Null
                 /\ row.operand = Null
                 /\ row.parentId = Null
                 /\ 2 * Abs(row.value * FinePerUlp - v) <= FinePerUlp]_vars

C9_Witness ==
    /\ response.handler = "createDiscussion"
    /\ response.outcome = "resolved"
    /\ response.startingNumber = 10 * Fine
    /\ Len(rows) = 2
    /\ rows[2].value = 10 * Ulps

\* C10: an addOperation call that resolves appends exactly one row and
\* resolves to that node: its value is what calculateResult returned for the
\* looked-up parent's value, its operation and operand are the requested
\* ones, its parentId is the id of the looked-up parent, its authorId the
\* calling user.
C10_CreateChild ==
    [][\A c \in BagToSet(requests) :
          (Resumed(c) /\ response'.outcome = "resolved")
          => /\ c.parent # Null
             /\ response'.node # Null
             /\ LET node   == response'.node[1]
                    row    == rows'[Len(rows')]
                    parent == c.parent[1]
                IN  /\ node.value = calculateResult(parent.value, c.dto.operation,
                                                    JsNumber(c.dto.operand)).value
                    /\ node.operation = Some(c.dto.operation)
                    /\ node.operand = Some(JsNumber(c.dto.operand))
                    /\ node.parentId = Some(c.dto.parentId)
                    /\ node.parentId = parent.id
                    /\ node.authorId = c.userId
                    /\ OneInsert
                    /\ node.id = Some(row.id)
                    /\ row.id \notin Ids(rows)
                    /\ row.operation = node.operation
                    /\ row.parentId = node.parentId
                    /\ row.authorId = c.userId]_vars

C10_Witness ==
    /\ response.handler = "addOperation"
    /\ response.outcome = "resolved"
    /\ response.node # Null
    /\ response.node[1].operation = Some("multiply")
    /\ response.node[1].value = JsNumber(50 * Fine)
    /\ rows[Len(rows)].value = 50 * Ulps

\* ------------------------------------------------------ the forest claims
SeqRange(q) == {q[i] : i \in 1..Len(q)}

NoRepeats(q) == Cardinality(SeqRange(q)) = Len(q)

\* the last call that completed is a getAllDiscussions; the table has not
\* changed since
Listed == response.handler = "getAllDiscussions"

\* the ids of the nodes found in a returned forest: its roots, their
\* children, and so on
RECURSIVE Descendants(_, _, _)
Descendants(forest, ids, depth) ==
    IF depth = 0 \/ ids = {} THEN ids
    ELSE ids \cup Descendants(forest,
                     UNION {SeqRange(forest.nodeMap[id].children) : id \in ids},
                     depth - 1)

Shown(forest) ==
    Descendants(forest, SeqRange(forest.rootNodes), Cardinality(DOMAIN forest.nodeMap))

ChildrenOf(table, id) ==
    {table[i].id : i \in {j \in 1..Len(table) : table[j].parentId = Some(id)}}

\* C11: in the forest getAllDiscussions returns, every stored node appears
\* with its stored fields, and the children of every node are exactly the
\* stored nodes whose parentId is that node's id, each once, at every depth;
\* for A (root), B (parent A), C (parent B): one root A, A's children [B],
\* B's children [C], C's children [].
C11_ForestChildren ==
    Listed =>
        LET forest == response.forest
        IN  /\ DOMAIN forest.nodeMap = Ids(rows)
            /\ Shown(forest) = Ids(rows)
            /\ \A id \in Ids(rows) :
                  /\ forest.nodeMap[id].node = Hydrate(RowWithId(rows, id))
                  /\ NoRepeats(forest.nodeMap[id].children)
                  /\ SeqRange(forest.nodeMap[id].children) = ChildrenOf(rows, id)

C11_Witness ==
    /\ Listed
    /\ Len(rows) = 3
    /\ rows[1].parentId = Null
    /\ rows[2].parentId = Some(rows[1].id)
    /\ rows[3].parentId = Some(rows[2].id)
    /\ response.forest.rootNodes = <<rows[1].id>>
    /\ response.forest.nodeMap[rows[1].id].children = <<rows[2].id>>
    /\ response.forest.nodeMap[rows[2].id].children = <<rows[3].id>>
    /\ response.forest.nodeMap[rows[3].id].children = <<>>

\* C12: the top-level sequence getAllDiscussions returns holds exactly the
\* stored nodes without parentId, each once; two unrelated roots give two
\* trees of one node each, with empty children.
C12_ForestRoots ==
    Listed =>
        /\ NoRepeats(response.forest.rootNodes)
        /\ SeqRange(response.forest.rootNodes) =
               {rows[i].id : i \in {j \in 1..Len(rows) : rows[j].parentId = Null}}

C12_Witness ==
    /\ Listed
    /\ Len(rows) = 2
    /\ rows[1].parentId = Null
    /\ rows[2].parentId = Null
    /\ SeqRange(response.forest.rootNodes) = {rows[1].id, rows[2].id}
    /\ Len(response.forest.rootNodes) = 2
    /\ response.forest.nodeMap[rows[1].id].children = <<>>
    /\ response.forest.nodeMap[rows[2].id].children = <<>>

\* C13: given a list with a node whose parentId is the id of no node of the
\* list, the reconstruction completes, and that node is neither among the
\* roots nor among the children of any node.
C13_DanglingDropped ==
    listing.built =>
        LET allNodes == listing.allNodes
            forest   == listing.forest
        IN  /\ DOMAIN forest.nodeMap = {allNodes[i].id[1] : i \in 1..Len(allNodes)}
            /\ \A i \in 1..Len(allNodes) :
                  (/\ allNodes[i].parentId # Null
                   /\ \A j \in 1..Len(allNodes) : allNodes[j].id # allNodes[i].parentId)
                  => /\ allNodes[i].id[1] \notin SeqRange(forest.rootNodes)
                     /\ \A id \in DOMAIN forest.nodeMap :
                           allNodes[i].id[1] \notin SeqRange(forest.nodeMap[id].children)
                     /\ allNodes[i].id[1] \notin Shown(forest)

C13_Witness ==
    /\ listing.built
    /\ listing.allNodes = <<ListedNode(2, Some(MaxNodes + 1)), ListedNode(1, Null)>>
    /\ listing.forest.rootNodes = <<1>>
    /\ listing.forest.nodeMap[1].children = <<>>

\* C14: for every permutation of the same list of nodes, also one where a
\* child comes before its parent, the reconstruction gives the same set of
\* roots and the same set of children under every node.
Permuted(q) ==
    {[i \in 1..Len(q) |-> q[f[i]]] :
        f \in {g \in [1..Len(q) -> 1..Len(q)] :
                  \A i, j \in 1..Len(q) : g[i] = g[j] => i = j}}

SameUpToOrder(f, g) ==
    /\ SeqRange(f.rootNodes) = SeqRange(g.rootNodes)
    /\ Len(f.rootNodes) = Len(g.rootNodes)
    /\ DOMAIN f.nodeMap = DOMAIN g.nodeMap
    /\ \A id \in DOMAIN f.nodeMap :
          /\ f.nodeMap[id].node = g.nodeMap[id].node
          /\ SeqRange(f.nodeMap[id].children) = SeqRange(g.nodeMap[id].children)
          /\ Len(f.nodeMap[id].children) = Len(g.nodeMap[id].children)

C14_OrderIndependent ==
    listing.built =>
        \A q \in Permuted(listing.allNodes) :
            SameUpToOrder(BuildForest(q), listing.forest)

C14_Witness ==
    /\ listing.built
    /\ listing.allNodes =
           <<ListedNode(3, Some(2)), ListedNode(2, Some(1)), ListedNode(1, Null)>>
    /\ listing.forest.rootNodes = <<1>>
    /\ listing.forest.nodeMap[1].children = <<2>>
    /\ listing.forest.nodeMap[2].children = <<3>>

\* C15: the children of every node of the forest getAllDiscussions returns
\* are in the order of the listing it was built from, which is createdAt
\* descending: the most recently created child first.
PositionIn(allNodes, id) ==
    CHOOSE i \in 1..Len(allNodes) : allNodes[i].id = Some(id)

C15_ChildrenOrder ==
    Listed =>
        \A id \in Ids(rows) :
            LET children == response.forest.nodeMap[id].children
            IN  \A a, b \in 1..Len(children) :
                    a < b =>
                        /\ PositionIn(RepositoryFind(rows), children[a])
                               < PositionIn(RepositoryFind(rows), children[b])
                        /\ RowWithId(rows, children[a]).createdAt
                               > RowWithId(rows, children[b]).createdAt

C15_Witness ==
    /\ Listed
    /\ Len(rows) = 3
    /\ rows[2].parentId = Some(rows[1].id)
    /\ rows[3].parentId = Some(rows[1].id)
    /\ response.forest.nodeMap[rows[1].id].children = <<rows[3].id, rows[2].id>>

\* C16: getAllDiscussions on an empty table resolves to an empty sequence.
C16_EmptyStore ==
    (Listed /\ rows = <<>>) =>
        /\ response.outcome = "resolved"
        /\ response.forest.rootNodes = <<>>

C16_Witness ==
    /\ Listed
    /\ rows = <<>>
    /\ response.forest.rootNodes = <<>>
    /\ requests # EmptyBag

\* C17: a getAllDiscussions that completes right after another, no
\* createDiscussion or addOperation having completed in between, returns the
\* same forest: the same roots and the same children, in the same order.
C17_ListIdempotent ==
    [][(response.handler = "getAllDiscussions"
           /\ response'.handler = "getAllDiscussions")
       => response'.forest = response.forest]_vars

C17_Witness ==
    /\ Listed
    /\ Len(rows) = 2
    /\ rows[2].parentId = Some(rows[1].id)
    /\ response.forest.nodeMap[rows[1].id].children = <<rows[2].id>>
    /\ requests # EmptyBag

\* ------------------------------------------------- the concurrency claim
\* the fields of a row, and of a returned node, that are not generated by
\* the database
Given(node) ==
    [value     |-> node.value,
     operation |-> node.operation,
     operand   |-> node.operand,
     parentId  |-> node.parentId,
     authorId  |-> node.authorId]

\* what the call c gives when the table holds nothing but its parent
Alone(c) == addOperationBody(<<RowWithId(rows, c.parent[1].id[1])>>, c)

\* C18: an addOperation call whose parent exists ends as it would with the
\* parent alone in the table, whatever other calls on the same parent were
\* suspended or have inserted since its lookup: the same outcome, the same
\* value, operation and operand; when it resolves it appends one row with a
\* new id and the parent's id as parentId.  Two calls on one parent that would
\* each succeed alone both succeed and leave two distinct children.
C18_ConcurrentChildren ==
    [][\A c \in BagToSet(requests) :
          (Resumed(c) /\ c.parent # Null)
          => /\ response'.outcome = Alone(c).outcome
             /\ response'.message = Alone(c).message
             /\ response'.outcome = "resolved"
                => /\ Given(response'.node[1]) = Given(Alone(c).node[1])
                   /\ OneInsert
                   /\ rows'[Len(rows')].id \notin Ids(rows)
                   /\ rows'[Len(rows')].parentId = c.parent[1].id
                   /\ Given(rows'[Len(rows')]) = Given(Alone(c).table[2])
             /\ response'.outcome # "resolved" => rows' = rows]_vars

\* a child of node 1 has just been inserted while another call that looked
\* up node 1 is suspended, and a second child of node 1 is stored after both
C18_Witness ==
    /\ Len(rows) = 2
    /\ rows[2].parentId = Some(rows[1].id)
    /\ response.handler = "addOperation"
    /\ response.outcome = "resolved"
    /\ response.node[1].id = Some(rows[2].id)
    /\ \E c \in BagToSet(requests) :
          /\ c.parent # Null
          /\ c.parent[1].id = Some(rows[1].id)
          /\ c.dto.operation # rows[2].operation[1]
          /\ Alone(c).outcome = "resolved"

\* --------------------------------------------------- the access claims
\* the request carries a token signed with the secret for a user that exists
Authenticated(credential) ==
    credential.kind = "signed" /\ credential.sub \in Users

\* C19: a POST /discussions or POST /discussions/operation request without
\* a valid authentication is answered 401 and changes neither the table nor
\* the calls in progress; every row is inserted for, and every call in
\* progress was made by, an authenticated user; GET /discussions is served
\* to a request that carries no token.
C19_WritesNeedAuthentication ==
    [][/\ \A k \in Credentials :
             (~Authenticated(k) /\ (PostDiscussions(k) \/ PostDiscussionsOperation(k)))
             => /\ rows' = rows
                /\ requests' = requests
                /\ response'.outcome = "UnauthorizedException"
                /\ response'.node = Null
       /\ \A c \in BagToSet(requests') : c.userId \in Users
       /\ \A i \in 1..Len(rows') : rows'[i].authorId \in Users
       /\ GetDiscussions([kind |-> "none", sub |-> ""])
          => /\ response'.handler = "getAllDiscussions"
             /\ response'.outcome = "resolved"]_vars

C19_Witness ==
    /\ response.handler = "AuthGuard"
    /\ response.outcome = "UnauthorizedException"
    /\ Len(rows) = 2
    /\ requests # EmptyBag

\* the call c made by user u instead, on a parent authored by a instead
AsUser(c, u, a) ==
    [c EXCEPT !.userId = u,
              !.parent = IF c.parent = Null THEN Null
                         ELSE Some([c.parent[1] EXCEPT !.authorId = a])]

\* a node or row without its author
Unauthored(node) ==
    [value     |-> node.value,
     operation |-> node.operation,
     operand   |-> node.operand,
     parentId  |-> node.parentId]

\* C20: what an addOperation call does is what the same call would do in the
\* same table when made by any other user and on a parent authored by any
\* user: the same outcome and message, and when it resolves the same value,
\* operation, operand and parentId of the returned node and of the inserted
\* row; the authorId of the new node is the caller's.
C20_AnyUserMayAttach ==
    [][\A c \in BagToSet(requests) :
          Resumed(c) =>
              \A u, a \in Users :
                  LET other == addOperationBody(rows, AsUser(c, u, a))
                  IN  /\ other.outcome = response'.outcome
                      /\ other.message = response'.message
                      /\ Len(other.table) = Len(rows')
                      /\ response'.outcome = "resolved"
                         => /\ Unauthored(other.node[1]) = Unauthored(response'.node[1])
                            /\ other.node[1].id = response'.node[1].id
                            /\ other.node[1].authorId = u
                            /\ response'.node[1].authorId = c.userId
                            /\ Unauthored(other.table[Len(other.table)])
                                   = Unauthored(rows'[Len(rows')])
                            /\ other.table[Len(other.table)].authorId = u
                            /\ rows'[Len(rows')].authorId = c.userId]_vars

\* a user has attached a child to a node another user authored
C20_Witness ==
    /\ response.handler = "addOperation"
    /\ response.outcome = "resolved"
    /\ Len(rows) >= 2
    /\ rows[Len(rows)].parentId = Some(rows[1].id)
    /\ rows[Len(rows)].authorId # rows[1].authorId
    /\ response.userId = rows[Len(rows)].authorId

\* ------------------------------------------------- the structure claims
\* following parentId from the node id reaches a root within the given
\* number of steps
RECURSIVE ReachesRoot(_, _, _)
ReachesRoot(table, id, steps) ==
    /\ steps > 0
    /\ id \in Ids(table)
    /\ \/ RowWithId(table, id).parentId = Null
       \/ ReachesRoot(table, RowWithId(table, id).parentId[1], steps - 1)

\* C21: in every reachable table, following parentId from any stored node
\* reaches a root in at most as many steps as there are rows, so no node is
\* visited twice; the parent of every child was created before the child.
C21_Acyclic ==
    \A i \in 1..Len(rows) :
        /\ ReachesRoot(rows, rows[i].id, Len(rows))
        /\ rows[i].parentId # Null
           => /\ rows[i].parentId[1] \in Ids(rows)
              /\ RowWithId(rows, rows[i].parentId[1]).createdAt < rows[i].createdAt

C21_Witness ==
    /\ Len(rows) = 3
    /\ rows[1].parentId = Null
    /\ rows[2].parentId = Some(rows[1].id)
    /\ rows[3].parentId = Some(rows[2].id)
    /\ ReachesRoot(rows, rows[3].id, 3)
    /\ ~ReachesRoot(rows, rows[3].id, 2)

\* ------------------------------------------------- the failure claims
\* C22: an addOperation call that fails with BadRequestException had found
\* its parent, gives no node, and leaves the table exactly as it was; the
\* only such failure a request with an operation of the enum meets is the
\* division by zero.
C22_InvalidOperationWritesNothing ==
    [][\A c \in BagToSet(requests) :
          (Resumed(c) /\ response'.outcome = "BadRequestException")
          => /\ c.parent # Null
             /\ rows' = rows
             /\ response'.node = Null
             /\ response'.handler = "addOperation"
             /\ c.dto.operation = "divide"
             /\ c.dto.operand = 0]_vars

C22_Witness ==
    /\ response.handler = "addOperation"
    /\ response.outcome = "BadRequestException"
    /\ Len(rows) = 2
    /\ rows[2].parentId = Some(rows[1].id)
    /\ requests = EmptyBag

\* C23: an addOperation call whose parentId no row has and whose request is
\* a division by zero fails with NotFoundException 'Parent node not found',
\* not with BadRequestException, and writes nothing.
C23_LookupBeforeComputation ==
    [][\A c \in BagToSet(requests) :
          (Resumed(c) /\ c.parent = Null
              /\ c.dto.operation = "divide" /\ c.dto.operand = 0)
          => /\ response'.outcome = "NotFoundException"
             /\ response'.message = "Parent node not found"
             /\ response'.outcome # "BadRequestException"
             /\ rows' = rows]_vars

\* one of two calls dividing a node that does not exist by zero has ended
\* with NotFoundException, the other is still suspended
C23_Witness ==
    /\ response.handler = "addOperation"
    /\ response.outcome = "NotFoundException"
    /\ \E c \in BagToSet(requests) :
          /\ c.parent = Null
          /\ c.dto.operation = "divide"
          /\ c.dto.operand = 0
          /\ c.userId = response.userId
    /\ \A i \in 1..Len(rows) : rows[i].parentId = Null
    /\ Len(rows) = 1

\* C24: for an operation tag that is not of the enum, calculateResult throws
\* BadRequestException 'Invalid operation' whatever the parent's value and
\* the operand, and an addOperation call with such a tag gives no node and
\* inserts none.
C24_UnknownOperation ==
    [][\A c \in BagToSet(requests) :
          (Resumed(c) /\ c.dto.operation \notin Operation)
          => /\ rows' = rows
             /\ response'.node = Null
             /\ c.parent = Null => response'.outcome = "NotFoundException"
             /\ c.parent # Null
                => /\ calculateResult(c.parent[1].value, c.dto.operation,
                                      JsNumber(c.dto.operand))
                          = Thrown("Invalid operation")
                   /\ response'.outcome = "BadRequestException"
                   /\ response'.message = "Invalid operation"]_vars

C24_Witness ==
    /\ response.handler = "addOperation"
    /\ response.outcome = "BadRequestException"
    /\ response.message = "Invalid operation"
    /\ Len(rows) = 2
    /\ rows[2].operation = Some("multiply")

\* --------------------------------------------- the forest as a whole
\* the places of a forest where the node id stands: among the roots, or in
\* the children of a node
RootPlaces(forest, id) ==
    {i \in 1..Len(forest.rootNodes) : forest.rootNodes[i] = id}

ChildPlaces(forest, id) ==
    {pair \in UNION {{<<n, i>> : i \in 1..Len(forest.nodeMap[n].children)} :
                        n \in DOMAIN forest.nodeMap} :
        forest.nodeMap[pair[1]].children[pair[2]] = id}

\* the number of nodes a forest shows, counted with repetitions
RECURSIVE SizeBelow(_, _, _)
SizeBelow(forest, q, depth) ==
    IF depth = 0 \/ q = <<>> THEN 0
    ELSE 1 + SizeBelow(forest, forest.nodeMap[Head(q)].children, depth - 1)
           + SizeBelow(forest, Tail(q), depth)

ForestSize(forest) ==
    SizeBelow(forest, forest.rootNodes, Cardinality(DOMAIN forest.nodeMap) + 1)

\* C25: the forest getAllDiscussions returns shows every stored node exactly
\* once, a node without parentId among the roots and every other node in the
\* children of its parent and nowhere else: the forest has as many nodes as
\* the table has rows.
C25_EveryNodeOnce ==
    Listed =>
        LET forest == response.forest
        IN  /\ ForestSize(forest) = Len(rows)
            /\ Shown(forest) = Ids(rows)
            /\ \A i \in 1..Len(rows) :
                  /\ Cardinality(RootPlaces(forest, rows[i].id))
                       + Cardinality(ChildPlaces(forest, rows[i].id)) = 1
                  /\ rows[i].parentId = Null
                     => Cardinality(RootPlaces(forest, rows[i].id)) = 1
                  /\ rows[i].parentId # Null
                     => \A pair \in ChildPlaces(forest, rows[i].id) :
                            Some(pair[1]) = rows[i].parentId

C25_Witness ==
    /\ Listed
    /\ Len(rows) = 3
    /\ rows[2].parentId = Null
    /\ rows[3].parentId = Some(rows[1].id)
    /\ ForestSize(response.forest) = 3
    /\ Len(response.forest.rootNodes) = 2

\* --------------------------------------- lists that are not forests
ListedIndex(allNodes, id) ==
    CHOOSE i \in 1..Len(allNodes) : allNodes[i].id = Some(id)

InList(allNodes, id) == \E i \in 1..Len(allNodes) : allNodes[i].id = Some(id)

\* following parentId from the node id stays in the list and ends at a root
\* within the given number of steps
RECURSIVE ChainPresent(_, _, _)
ChainPresent(allNodes, id, steps) ==
    /\ steps > 0
    /\ InList(allNodes, id)
    /\ \/ allNodes[ListedIndex(allNodes, id)].parentId = Null
       \/ ChainPresent(allNodes, allNodes[ListedIndex(allNodes, id)].parentId[1],
                       steps - 1)

\* following parentId from the node id never leaves the list and never ends:
\* the node is on a cycle, or below one
RECURSIVE ChainCycles(_, _, _)
ChainCycles(allNodes, id, steps) ==
    /\ InList(allNodes, id)
    /\ allNodes[ListedIndex(allNodes, id)].parentId # Null
    /\ \/ steps = 0
       \/ ChainCycles(allNodes, allNodes[ListedIndex(allNodes, id)].parentId[1],
                      steps - 1)

\* C26: a node of the list is in the returned forest exactly when its whole
\* parentId chain up to a root is in the list; the descendants of a node
\* dropped for its dangling parentId are dropped with it.
C26_ChainPresent ==
    listing.built =>
        \A i \in 1..Len(listing.allNodes) :
            (listing.allNodes[i].id[1] \in Shown(listing.forest))
            <=> ChainPresent(listing.allNodes, listing.allNodes[i].id[1],
                             Len(listing.allNodes))

C26_Witness ==
    /\ listing.built
    /\ listing.allNodes =
           <<ListedNode(3, Null), ListedNode(2, Some(1)),
             ListedNode(1, Some(MaxNodes + 1))>>
    /\ Shown(listing.forest) = {3}
    /\ listing.forest.nodeMap[1].children = <<2>>

\* C27: the reconstruction of every list ends, also of a list whose parentId
\* references form a cycle or where a node is its own parent; the nodes on a
\* cycle and below one are not in the returned forest, which has no more
\* nodes than the list and in which no node is below itself.
C27_CyclesDropped ==
    /\ <>listing.built
    /\ [](listing.built =>
            LET allNodes == listing.allNodes
                forest   == listing.forest
            IN  /\ \A i \in 1..Len(allNodes) :
                      ChainCycles(allNodes, allNodes[i].id[1], Len(allNodes))
                      => allNodes[i].id[1] \notin Shown(forest)
                /\ ForestSize(forest) <= Len(allNodes)
                /\ \A id \in Shown(forest) :
                      id \notin Descendants(forest,
                                    SeqRange(forest.nodeMap[id].children),
                                    Len(allNodes)))

C27_Witness ==
    /\ listing.built
    /\ listing.allNodes =
           <<ListedNode(1, Some(1)), ListedNode(2, Some(3)), ListedNode(3, Some(2))>>
    /\ listing.forest.rootNodes = <<>>
    /\ listing.forest.nodeMap[1].children = <<1>>
    /\ listing.forest.nodeMap[2].children = <<3>>
    /\ listing.forest.nodeMap[3].children = <<2>>

\* ------------------------------------------------------ the frame claim
\* C28: a getAllDiscussions leaves the table and the calls in progress as
\* they were, so that the listing after it is the listing before it, and the
\* records of the listing are in the forest as the repository gave them,
\* with no children field of their own: children belongs to the copies.
C28_ListReadOnly ==
    [][(response' # response /\ response'.handler = "getAllDiscussions")
       => /\ rows' = rows
          /\ requests' = requests
          /\ RepositoryFind(rows') = RepositoryFind(rows)
          /\ \A i \in 1..Len(rows) :
                /\ response'.forest.nodeMap[rows[i].id].node = Hydrate(rows[i])
                /\ "children" \notin DOMAIN response'.forest.nodeMap[rows[i].id].node
                /\ "children" \notin DOMAIN RepositoryFind(rows')[i]]_vars

C28_Witness ==
    /\ Listed
    /\ Len(rows) = 2
    /\ requests # EmptyBag
    /\ response.forest.nodeMap[rows[2].id].node = Hydrate(rows[2])
    /\ response.forest.nodeMap[rows[1].id].children = <<rows[2].id>>
    /\ DOMAIN response.forest.nodeMap[rows[1].id].node = DOMAIN Hydrate(rows[1])

\* ----------------------------------------------------- the growth claim
\* what getAllDiscussions returns for a table
ListingOf(table) == BuildForest(RepositoryFind(table))

\* where a forest shows the node id: among the roots or not, and under which
\* nodes
Place(forest, id) ==
    [root    |-> id \in SeqRange(forest.rootNodes),
     parents |-> {n \in DOMAIN forest.nodeMap :
                     id \in SeqRange(forest.nodeMap[n].children)}]

\* the node id is in both listings, at the same place and with the same
\* value
KeepsPlace(before, after, id) ==
    /\ id \in Shown(after)
    /\ Place(after, id) = Place(before, id)
    /\ after.nodeMap[id].node.value = before.nodeMap[id].node.value

\* the listing shows the node at the place its parentId says
ShownAtPlace(forest, id, parentId) ==
    /\ id \in Shown(forest)
    /\ Place(forest, id) = [root |-> parentId = Null, parents |-> SeqRange(parentId)]

\* C29: every step that changes the table keeps every node the listing
\* showed before in the listing after, at the same place (a root, or under
\* the same parent) and with the same value; a createDiscussion or
\* addOperation that resolves puts its node into the listing, a child under
\* the parent it was created on; and every getAllDiscussions returns the
\* nodes of the table at their places.  So a node, once created or once
\* listed, is in every later listing, where it was.
C29_ForestOnlyGrows ==
    [][/\ rows' # rows
          => \A before \in {ListingOf(rows)}, after \in {ListingOf(rows')} :
                 /\ \A id \in Shown(before) : KeepsPlace(before, after, id)
                 /\ response'.outcome = "resolved"
                 /\ response'.node # Null
                 /\ response'.node[1].id[1] \notin Shown(before)
                 /\ ShownAtPlace(after, response'.node[1].id[1],
                                 response'.node[1].parentId)
       /\ (response' # response /\ response'.handler = "getAllDiscussions")
          => \A i \in 1..Len(rows) :
                /\ ShownAtPlace(response'.forest, rows[i].id, rows[i].parentId)
                /\ response'.forest.nodeMap[rows[i].id].node.value =
                       Hydrate(rows[i]).value]_vars

C29_Witness ==
    /\ Listed
    /\ Len(rows) = 3
    /\ rows[2].parentId = Some(rows[1].id)
    /\ rows[3].parentId = Some(rows[1].id)
    /\ rows[3].authorId # rows[2].authorId
    /\ Place(response.forest, rows[2].id) = [root |-> FALSE, parents |-> {rows[1].id}]
    /\ Place(response.forest, rows[3].id) = [root |-> FALSE, parents |-> {rows[1].id}]
    /\ Place(response.forest, rows[1].id) = [root |-> TRUE, parents |-> {}]
====
